---- MODULE Spec2Model ----
(***************************************************************************)
(* Session routing, request authentication, the documentation cache and   *)
(* the tool handlers of the DVBase MCP server.                             *)
(*                                                                         *)
(* Two deployments of the entry point are modelled:                        *)
(*   mode = "bearer"      src/src/index.ts (bearer token, shared server)   *)
(*   mode = "secretpath"  src/src/ninox-client.ts:254-505 (secret path +   *)
(*                        IP allowlist, createServer() per session)        *)
(*                                                                         *)
(* Strings of the program that the code takes apart (tokens, headers) are  *)
(* sequences of one-character strings.  JavaScript 32-bit words are pairs  *)
(* of 16-bit halves, because the numbers exceed TLC's integers.            *)
(***************************************************************************)
EXTENDS Integers, Sequences, FiniteSets, TLC

(* ------------------------------ bounds -------------------------------- *)

\* handlers suspended at an await at the same time
MaxInflight == 2
\* transports constructed in one run (session identifiers are 1..MaxSessions)
MaxSessions == 2
\* characters of a token after its optional "Bearer " prefixes
MaxTokenLen == 2
\* lookups of the ContextStore suspended at the same time
MaxLookups == 2
\* lookups of the ContextStore started in one run
MaxStarted == 3
\* freshness windows the clock runs through
MaxWindows == 2
\* records of a documentation table
MaxRecords == 2

(* ------------------------- strings (index.ts) ------------------------- *)

BearerPrefix == <<"B", "e", "a", "r", "e", "r", " ">>

\* String.prototype.startsWith
startsWith(s, p) ==
  /\ Len(s) >= Len(p)
  /\ SubSeq(s, 1, Len(p)) = p

\* String.prototype.slice(n), n >= 0
slice(s, n) == IF n >= Len(s) THEN <<>> ELSE SubSeq(s, n + 1, Len(s))

\* a request header: absent (undefined) or a string
NoHeader == [present |-> FALSE, value |-> <<>>]
Header(v) == [present |-> TRUE, value |-> v]

\* JavaScript truthiness of an optional string
Truthy(h) == h.present /\ h.value # <<>>

(* --------------------- responses written by the code ------------------ *)

\* status 0: nothing written by this code (the transport answers, or the
\* handler is still running); code 0: body is not a JSON-RPC envelope
NoResponse ==
  [status |-> 0, code |-> 0, id |-> "none", text |-> "", by |-> "none", target |-> 0]
JsonRpcError(st, c, i, m, who) ==
  [status |-> st, code |-> c, id |-> i, text |-> m, by |-> who, target |-> 0]
PlainError(st, m, who) ==
  [status |-> st, code |-> 0, id |-> "none", text |-> m, by |-> who, target |-> 0]

(* ----------------------- authMiddleware (index.ts) -------------------- *)

\* authHeader.startsWith("Bearer ") ? authHeader.slice(7) : authHeader
headerToken(authHeader) ==
  IF startsWith(authHeader, BearerPrefix) THEN slice(authHeader, 7) ELSE authHeader

\* the two rejections with their classifications exchanged
authMiddlewareSwapped(token, hdr) ==
  IF token = <<>> THEN NoResponse
  ELSE IF ~Truthy(hdr)
    THEN JsonRpcError(403, -32001, "null", "Forbidden: Ungueltiger Token", "filter")
  ELSE IF headerToken(hdr.value) # token
    THEN JsonRpcError(401, -32001, "null", "Unauthorized: Authorization header fehlt", "filter")
  ELSE NoResponse

\* NoResponse stands for next()
authMiddleware(token, hdr) ==
  IF token = <<>> THEN NoResponse
  ELSE IF ~Truthy(hdr)
    THEN JsonRpcError(401, -32001, "null", "Unauthorized: Authorization header fehlt", "filter")
  ELSE IF headerToken(hdr.value) # token
    THEN JsonRpcError(403, -32001, "null", "Forbidden: Ungueltiger Token", "filter")
  ELSE NoResponse

(* -------------- 32-bit words (ninox-client.ts:316-354) ---------------- *)

Half == 2^16

\* a JavaScript number n with -2^31 <= n < 2^32 is [hi, lo], n = hi*2^16 + lo
Num(h, l) == [hi |-> h, lo |-> l]

\* a & b for 4-bit a and b, at [a + 1][b + 1]
NibbleAnd ==
  << << 0,  0,  0,  0,  0,  0,  0,  0,  0,  0,  0,  0,  0,  0,  0,  0>>,
     << 0,  1,  0,  1,  0,  1,  0,  1,  0,  1,  0,  1,  0,  1,  0,  1>>,
     << 0,  0,  2,  2,  0,  0,  2,  2,  0,  0,  2,  2,  0,  0,  2,  2>>,
     << 0,  1,  2,  3,  0,  1,  2,  3,  0,  1,  2,  3,  0,  1,  2,  3>>,
     << 0,  0,  0,  0,  4,  4,  4,  4,  0,  0,  0,  0,  4,  4,  4,  4>>,
     << 0,  1,  0,  1,  4,  5,  4,  5,  0,  1,  0,  1,  4,  5,  4,  5>>,
     << 0,  0,  2,  2,  4,  4,  6,  6,  0,  0,  2,  2,  4,  4,  6,  6>>,
     << 0,  1,  2,  3,  4,  5,  6,  7,  0,  1,  2,  3,  4,  5,  6,  7>>,
     << 0,  0,  0,  0,  0,  0,  0,  0,  8,  8,  8,  8,  8,  8,  8,  8>>,
     << 0,  1,  0,  1,  0,  1,  0,  1,  8,  9,  8,  9,  8,  9,  8,  9>>,
     << 0,  0,  2,  2,  0,  0,  2,  2,  8,  8, 10, 10,  8,  8, 10, 10>>,
     << 0,  1,  2,  3,  0,  1,  2,  3,  8,  9, 10, 11,  8,  9, 10, 11>>,
     << 0,  0,  0,  0,  4,  4,  4,  4,  8,  8,  8,  8, 12, 12, 12, 12>>,
     << 0,  1,  0,  1,  4,  5,  4,  5,  8,  9,  8,  9, 12, 13, 12, 13>>,
     << 0,  0,  2,  2,  4,  4,  6,  6,  8,  8, 10, 10, 12, 12, 14, 14>>,
     << 0,  1,  2,  3,  4,  5,  6,  7,  8,  9, 10, 11, 12, 13, 14, 15>> >>

And4(a, b) == NibbleAnd[a + 1][b + 1]

\* AND and OR of two 16-bit halves, nibble by nibble
And16(a, b) ==
    4096 * And4(a \div 4096, b \div 4096)
  + 256 * And4((a \div 256) % 16, (b \div 256) % 16)
  + 16 * And4((a \div 16) % 16, (b \div 16) % 16)
  + And4(a % 16, b % 16)
Or16(a, b) == a + b - And16(a, b)

\* ToInt32 and ToUint32 of a number in range: same bits, read signed/unsigned
ToUint32(x) == Num(x.hi % Half, x.lo)
ToInt32(x) == LET h == x.hi % Half IN Num(IF h >= 32768 THEN h - Half ELSE h, x.lo)

\* a & b and a | b: operands to Int32, result an Int32
And32(a, b) == ToInt32(Num(And16(a.hi % Half, b.hi % Half), And16(a.lo, b.lo)))
Or32(a, b) == ToInt32(Num(Or16(a.hi % Half, b.hi % Half), Or16(a.lo, b.lo)))

\* p << k for an integer 0 <= p < 2^16 and k in {0, 8, 16, 24}: an Int32
Shl(p, k) ==
  IF k = 24 THEN ToInt32(Num((p * 256) % Half, 0))
  ELSE IF k = 16 THEN ToInt32(Num(p % Half, 0))
  ELSE IF k = 8 THEN ToInt32(Num(p \div 256, (p * 256) % Half))
  ELSE Num(0, p)

\* x >>> 0
Ushr0(x) == ToUint32(x)

(* --------------------------- configuration --------------------------- *)

VARIABLES
  mode,                  \* which entry point runs: "bearer" or "secretpath"
  MCP_AUTH_TOKEN,        \* index.ts:23, "" when unset
  IP_WHITELIST_ENABLED,  \* ninox-client.ts:283
  MCP_SECRET_PATH,       \* ninox-client.ts:282, "" when unset
  NINOX_API_KEY,         \* server.ts:21, "" when unset
  NINOX_TEAM_ID,         \* server.ts:22
  NINOX_DATABASE_ID,     \* server.ts:23
  DOKU_TABLE_ID          \* server.ts:25, "" when unset

\* the values read from the environment when the modules load
config ==
  <<mode, MCP_AUTH_TOKEN, IP_WHITELIST_ENABLED, MCP_SECRET_PATH, NINOX_API_KEY,
    NINOX_TEAM_ID, NINOX_DATABASE_ID, DOKU_TABLE_ID>>

(* ------------- network addresses (ninox-client.ts:316-354) ------------ *)

\* req.ip is (mapped ? "::ffff:" : "") followed by a dotted quad or by
\* another host string ("::1", "localhost", "")
V4(a, b, c, d) == [mapped |-> FALSE, kind |-> "v4", octets |-> <<a, b, c, d>>, name |-> ""]
Named(n) == [mapped |-> FALSE, kind |-> "name", octets |-> <<0, 0, 0, 0>>, name |-> n]
Mapped(ip) == [ip EXCEPT !.mapped = TRUE]

PrimaryNetwork == Num(41039, 26624)   \* 0xA04F6800
PrimaryMask == Num(65535, 63488)      \* 0xFFFFF800
LegacyIps ==
  { <<34, 162, 46, 92>>, <<34, 162, 102, 82>>, <<34, 162, 136, 91>>,
    <<34, 162, 142, 92>>, <<34, 162, 183, 95>> }

\* ip.split(".").map(Number): a host that is no dotted quad yields NaN and
\* undefined parts, which << converts to 0; so does the first part of a
\* dotted quad that still carries "::ffff:"
ipParts(ip) ==
  IF ip.kind # "v4" THEN <<0, 0, 0, 0>>
  ELSE IF ip.mapped THEN <<0, ip.octets[2], ip.octets[3], ip.octets[4]>>
  ELSE ip.octets

\* ANTHROPIC_IP_RANGES.legacy.has(cleanIp): the set holds plain dotted quads
legacyHas(cleanIp) ==
  cleanIp.kind = "v4" /\ ~cleanIp.mapped /\ cleanIp.octets \in LegacyIps

ipToInt(ip) ==
  LET parts == ipParts(ip) IN
  Ushr0(Or32(Or32(Or32(Shl(parts[1], 24), Shl(parts[2], 16)), Shl(parts[3], 8)),
             Shl(parts[4], 0)))

\* the address taken as it is
cleanIpOfKept(ip) == ip

\* ip.replace(/^::ffff:/, "")
cleanIpOf(ip) == [ip EXCEPT !.mapped = FALSE]

isLocalhost(cleanIp) ==
  \/ cleanIp = V4(127, 0, 0, 1)
  \/ cleanIp = Named("::1")
  \/ cleanIp = Named("localhost")

\* the localhost branch trusting loopback unconditionally
isAnthropicIpTrustLocal(ip) ==
  LET cleanIp == cleanIpOf(ip) IN
  IF isLocalhost(cleanIp) THEN TRUE
  ELSE IF And32(ipToInt(cleanIp), PrimaryMask) = PrimaryNetwork THEN TRUE
  ELSE legacyHas(cleanIp)

isAnthropicIp(ip) ==
  LET cleanIp == cleanIpOf(ip) IN
  IF isLocalhost(cleanIp) THEN ~IP_WHITELIST_ENABLED
  ELSE IF And32(ipToInt(cleanIp), PrimaryMask) = PrimaryNetwork THEN TRUE
  ELSE legacyHas(cleanIp)

ipWhitelistMiddleware(ip) ==
  IF ~IP_WHITELIST_ENABLED THEN NoResponse
  ELSE IF isAnthropicIp(ip) THEN NoResponse
  ELSE JsonRpcError(403, -32001, "null", "Forbidden", "filter")

(* ------------------------------ state -------------------------------- *)

VARIABLES
  transports,   \* the session map: session identifier -> transport
  tr,           \* the StreamableHTTPServerTransport objects constructed so far
  boundTo,      \* McpServer instance -> the transport it is connected to (0: none)
  issued,       \* number of identifiers randomUUID() has produced
  inflight,     \* handlers suspended at an await
  pending,      \* the request in the current turn of the event loop, if any
  last,         \* the response written last (NoResponse when a request arrives)
  alive,        \* the process is running
  listening     \* app.listen has been called

VARIABLES
  dokuTable,        \* the records of the documentation table in Ninox
  allRecordsCache,  \* ContextStore.allRecordsCache
  clock,            \* Date.now(), in milliseconds
  calls,            \* lookups suspended at the await of getRecords
  fetchLog,         \* the getRecords calls issued so far and how each ended
  started,          \* number of lookups started
  returned,         \* what the lookup that returned last returned
  clearedAfter,     \* number of getRecords calls issued before the last clearCache()
  toolResult        \* what the tool handler that ran last returned

store ==
  <<dokuTable, allRecordsCache, clock, calls, fetchLog, started, returned,
    clearedAfter, toolResult>>

vars ==
  <<config, transports, tr, boundTo, issued, inflight, pending, last, alive, listening,
    store>>

Slots == 1..MaxInflight
EmptyMap == [k \in {} |-> 0]

\* Map.prototype.delete
MapDelete(m, k) == [x \in DOMAIN m \ {k} |-> m[x]]
\* Map.prototype.set
MapSet(m, k, v) == [x \in DOMAIN m \cup {k} |-> IF x = k THEN v ELSE m[x]]

(* ------------------------------ requests ------------------------------ *)

\* req.body after express.json(): absent, a JSON object or a JSON array.
\* An object has an optional method and an optional id; an array item is an
\* object with method "initialize" ("init"), another object ("other") or
\* the JSON value null ("null").  Values of id are written as JSON text.
NoBody == [kind |-> "absent", method |-> "", id |-> "absent", items |-> <<>>]
ObjectBody(m, i) == [kind |-> "object", method |-> m, id |-> i, items |-> <<>>]
ArrayBody(its) == [kind |-> "array", method |-> "", id |-> "absent", items |-> its]

Request(m, p, sid, b, a, ip) ==
  [method |-> m, path |-> p, sid |-> sid, body |-> b, auth |-> a, ip |-> ip]

NoRequest == Request("", [base |-> "", seg |-> [present |-> FALSE, value |-> <<>>]], 0, NoBody, NoHeader, Named(""))

\* a suspended handler: where it waits, the sessionId it read from the
\* header, the transport it called or constructed
Idle == [pc |-> "idle", sid |-> 0, t |-> 0]

(* ---------------- handleMcpRequest, new-session test ------------------ *)

RECURSIVE someInitialize(_, _)
\* body.some(msg => msg.method === "initialize") from item i on: reading
\* .method of null throws a TypeError
someInitialize(items, i) ==
  IF i > Len(items) THEN "false"
  ELSE IF items[i] = "null" THEN "throw"
  ELSE IF items[i] = "init" THEN "true"
  ELSE someInitialize(items, i + 1)

\* "true", "false" or "throw"
isInitialize(body) ==
  IF body.kind = "object" /\ body.method = "initialize" THEN "true"
  ELSE IF body.kind = "array" THEN someInitialize(body.items, 1)
  ELSE "false"

\* body?.id || null
echoedId(body) ==
  IF body.kind = "object" /\ body.id \notin {"absent", "null", "0", "\"\"", "false"}
  THEN body.id ELSE "null"
InternalError ==
  JsonRpcError(500, -32603, "null", "Internal server error", "catch")
InvalidSession == PlainError(400, "Invalid or missing session ID", "router")
NotFound == PlainError(404, "Not found", "catchall")
\* res.json({status: "ok", ..., activeSessions: transports.size, ...})
HealthOk(n) ==
  [status |-> 200, code |-> 0, id |-> "none", text |-> "ok", by |-> "health",
   target |-> 0, activeSessions |-> n]
ByTransport(t) ==
  [status |-> 0, code |-> 0, id |-> "none", text |-> "", by |-> "transport", target |-> t]

(* ------------------------------ routes -------------------------------- *)

\* a request path: "/mcp", "/mcp/<segment>", "/health", "/other"; the
\* segment after the base is a string or missing
NoSegment == [present |-> FALSE, value |-> <<>>]
Segment(w) == [present |-> TRUE, value |-> w]
Path(base, seg) == [base |-> base, seg |-> seg]

HealthPath == Path("/health", NoSegment)

\* the path on which the three protocol routes are registered:
\* "/mcp" (index.ts:146) or `/mcp/${MCP_SECRET_PATH}` (ninox-client.ts:305)
McpRoute ==
  IF mode = "bearer" THEN Path("/mcp", NoSegment)
  ELSE Path("/mcp", Segment(MCP_SECRET_PATH))

\* letters of the alphabet the secrets are written in
toLowerCase(w) == [i \in 1..Len(w) |-> IF w[i] = "A" THEN "a" ELSE w[i]]

\* route matching of express(): "case sensitive routing" is off unless the
\* application sets it, so letters match regardless of case
matchesRoute(path, route) ==
  /\ path.base = route.base
  /\ path.seg.present = route.seg.present
  /\ toLowerCase(path.seg.value) = toLowerCase(route.seg.value)

\* the route of the table that takes the request: the three protocol routes,
\* then (ninox-client.ts only) app.all("/mcp") and app.all("/mcp/*"), then
\* app.get("/health")
routeOf(req) ==
  IF matchesRoute(req.path, McpRoute) /\ req.method \in {"POST", "GET", "DELETE"}
    THEN "mcp"
  ELSE IF mode = "secretpath" /\ req.path.base = "/mcp" THEN "catchall"
  ELSE IF matchesRoute(req.path, HealthPath) /\ req.method = "GET" THEN "health"
  ELSE "none"

\* the middleware of the deployment
securityFilter(req) ==
  IF mode = "bearer" THEN authMiddleware(MCP_AUTH_TOKEN, req.auth)
  ELSE ipWhitelistMiddleware(req.ip)

\* a route table whose DELETE route was registered without the middleware
routeFilterDeleteOpen(req) ==
  IF req.method = "DELETE" THEN NoResponse ELSE securityFilter(req)

\* app.post / app.get / app.delete each name the middleware before the handler
routeFilter(req) == securityFilter(req)

\* the server instance the initialize path connects; the module-level
\* McpServer of index.ts is instance 0, createServer() returns 1, 2, ...
\* index.ts: the imported module-level server; ninox-client.ts: createServer()
serverForSession ==
  IF mode = "bearer" THEN 0 ELSE Cardinality(DOMAIN boundTo) + 1

\* a generator that hands out the identifier it produced last
staleUUID == IF issued = 0 THEN issued + 1 ELSE issued

\* crypto.randomUUID(): a value never produced before
randomUUID == issued + 1

\* the new-session test without the check of the method
startsSessionAnyMethod(req) == isInitialize(req.body) = "true"

\* isInitialize && req.method === "POST"
startsSession(req) == isInitialize(req.body) = "true" /\ req.method = "POST"

\* transports.get(sessionId) reading another entry of the map
lookupTransportAny(sid) == transports[CHOOSE k \in DOMAIN transports : \A j \in DOMAIN transports : k >= j]

\* transports.get(sessionId)!
lookupTransport(sid) == transports[sid]

\* sessionId && transports.has(sessionId); 0 is an absent or empty header
knownSession(sid) == sid # 0 /\ sid \in DOMAIN transports

(* ------------------------- request handlers --------------------------- *)

\* res.status(..).json(..) and return, nothing else touched
Respond(resp) ==
  /\ last' = resp
  /\ UNCHANGED <<transports, tr, boundTo, issued, inflight, pending>>

\* the handler reaches an await: it occupies the first free slot and the
\* turn ends
Suspend(rec) ==
  /\ \E s \in Slots :
       /\ inflight[s] = Idle
       /\ \A s2 \in Slots : s2 < s => inflight[s2] # Idle
       /\ inflight' = [inflight EXCEPT ![s] = rec]
  /\ pending' = NoRequest
\* handleMcpRequest up to its first await
handleMcpRequest(req) ==
  IF knownSession(req.sid)
  THEN /\ Suspend([pc |-> "forwarding", sid |-> req.sid, t |-> lookupTransport(req.sid)])
       /\ UNCHANGED <<transports, tr, boundTo, issued, last>>
  ELSE IF isInitialize(req.body) = "throw"
  THEN Respond(InternalError)
  ELSE IF startsSession(req)
  THEN /\ Len(tr) < MaxSessions
       /\ tr' = Append(tr, [sessionId |-> 0, closed |-> FALSE, onclose |-> 0,
                            server |-> serverForSession])
       /\ boundTo' = MapSet(boundTo, serverForSession, Len(tr) + 1)
       /\ Suspend([pc |-> "connecting", sid |-> req.sid, t |-> Len(tr) + 1])
       /\ UNCHANGED <<transports, issued, last>>
  ELSE Respond(JsonRpcError(400, -32000, echoedId(req.body),
                            "No valid session. Send an initialize request first.",
                            "router"))

\* a delete handler that removes the entry before it calls the transport
deleteRouteEager(req) ==
  IF knownSession(req.sid)
  THEN /\ Suspend([pc |-> "deleting", sid |-> req.sid, t |-> lookupTransport(req.sid)])
       /\ transports' = MapDelete(transports, req.sid)
       /\ UNCHANGED <<tr, boundTo, issued, last>>
  ELSE Respond(InvalidSession)

\* a delete handler that calls transports.get(sessionId) without the test:
\* for an unknown identifier the call on undefined throws
deleteRouteUnchecked(req) ==
  IF knownSession(req.sid)
  THEN /\ Suspend([pc |-> "deleting", sid |-> req.sid, t |-> lookupTransport(req.sid)])
       /\ UNCHANGED <<transports, tr, boundTo, issued, last>>
  ELSE Respond(PlainError(500, "Internal Server Error", "express"))

\* the app.delete handler up to its await
deleteRoute(req) ==
  IF knownSession(req.sid)
  THEN /\ Suspend([pc |-> "deleting", sid |-> req.sid, t |-> lookupTransport(req.sid)])
       /\ UNCHANGED <<transports, tr, boundTo, issued, last>>
  ELSE Respond(InvalidSession)

\* a health route registered behind the middleware of the deployment
healthRouteGuarded(req) ==
  IF securityFilter(req).status # 0 THEN Respond(securityFilter(req))
  ELSE Respond(HealthOk(Cardinality(DOMAIN transports)))

\* app.get("/health", (_req, res) => res.json({...}))
healthRoute(req) == Respond(HealthOk(Cardinality(DOMAIN transports)))

\* express runs the routes on request req: catch-all route, or the
\* middleware and then the handler, up to the handler's first await
Handle(req) ==
  /\ UNCHANGED <<config, store, alive, listening>>
  /\ IF routeOf(req) = "catchall" THEN Respond(NotFound)
     ELSE IF routeOf(req) = "health" THEN healthRoute(req)
     ELSE IF routeOf(req) = "none" THEN Respond(PlainError(404, "Cannot route", "express"))
     ELSE LET rejection == routeFilter(req) IN
          IF rejection.status # 0 THEN Respond(rejection)
          ELSE IF req.method = "DELETE" THEN deleteRoute(req)
          ELSE handleMcpRequest(req)

\* the bodies a request of method m carries
BodiesOf(m, bodies) ==
  IF m = "POST" THEN bodies
  ELSE IF m = "GET" THEN bodies \cap {NoBody, ObjectBody("initialize", "1")}
  ELSE {NoBody}

\* the bounds leave room for the handling of req: a free slot if the
\* handler will await, a transport if it will construct one
Admitted(req) ==
  LET free == \E s \in Slots : inflight[s] = Idle IN
  IF routeOf(req) # "mcp" \/ routeFilter(req).status # 0 THEN TRUE
  ELSE IF knownSession(req.sid) THEN free
  ELSE IF req.method # "DELETE" /\ isInitialize(req.body) # "throw" /\ startsSession(req)
       THEN free /\ Len(tr) < MaxSessions
  ELSE TRUE

\* a request of method m, drawn from the inputs R, arrives; last is cleared
\* and will hold what this request is answered at once, if anything
Arrive(m, R) ==
  /\ alive /\ listening /\ pending = NoRequest
  /\ \E p \in R.paths, a \in R.auths, ip \in R.ips, sid \in R.sids, b \in BodiesOf(m, R.bodies) :
       LET req == Request(m, p, sid, b, a, ip) IN
       /\ Admitted(req)
       /\ pending' = req
  /\ last' = NoResponse
  /\ UNCHANGED <<config, store, transports, tr, boundTo, issued, inflight, alive, listening>>

PostMcp(R) == Arrive("POST", R)
GetMcp(R) == Arrive("GET", R)
DeleteMcp(R) == Arrive("DELETE", R)
\* the request that has arrived is handled, in the same turn of the event loop
Dispatch ==
  /\ alive /\ pending # NoRequest /\ last = NoResponse
  /\ Handle(pending)

\* a request answered at once is done: the turn ends
Release ==
  /\ alive /\ pending # NoRequest /\ last # NoResponse
  /\ pending' = NoRequest
  /\ UNCHANGED <<config, store, transports, tr, boundTo, issued, inflight, last, alive, listening>>

(* --------------------------- continuations ---------------------------- *)

\* a suspended handler resumes in a turn of its own
Resumable(s, pcs) == alive /\ pending = NoRequest /\ inflight[s].pc \in pcs

Finish(s, resp) ==
  /\ inflight' = [inflight EXCEPT ![s] = Idle]
  /\ last' = resp

Quiet == UNCHANGED <<config, store, listening, pending>>

\* a handler that stores the transport in the map as soon as the transport
\* has taken its identifier, before transport.handleRequest has returned
ConnectResolvedRegistering(s) ==
  /\ Resumable(s, {"connecting"})
  /\ inflight' = [inflight EXCEPT ![s].pc = "initializing"]
  /\ \/ /\ tr' = [tr EXCEPT ![inflight[s].t].sessionId = randomUUID]
        /\ issued' = issued + 1
        /\ transports' = MapSet(transports, randomUUID, inflight[s].t)
     \/ UNCHANGED <<tr, issued, transports>>
  /\ UNCHANGED <<boundTo, last, alive>>
  /\ Quiet

\* await server.connect(transport) resolves and transport.handleRequest is
\* called: the transport either accepts the initialize message, taking an
\* identifier from sessionIdGenerator, or refuses the request itself
ConnectResolved(s) ==
  /\ Resumable(s, {"connecting"})
  /\ inflight' = [inflight EXCEPT ![s].pc = "initializing"]
  /\ \/ /\ tr' = [tr EXCEPT ![inflight[s].t].sessionId = randomUUID]
        /\ issued' = issued + 1
     \/ UNCHANGED <<tr, issued>>
  /\ UNCHANGED <<transports, boundTo, last, alive>>
  /\ Quiet

\* after await transport.handleRequest: register the session, install onclose
InitResume(s) ==
  LET t == inflight[s].t
      newSessionId == tr[t].sessionId IN
  /\ Resumable(s, {"initializing"})
  /\ IF newSessionId # 0
     THEN /\ transports' = MapSet(transports, newSessionId, t)
          /\ tr' = [tr EXCEPT ![t].onclose = newSessionId]
     ELSE UNCHANGED <<transports, tr>>
  /\ Finish(s, ByTransport(t))
  /\ UNCHANGED <<boundTo, issued, alive>>
  /\ Quiet

\* await transport.handleRequest of a forwarded request resolves
ForwardResolved(s) ==
  /\ Resumable(s, {"forwarding"})
  /\ Finish(s, ByTransport(inflight[s].t))
  /\ UNCHANGED <<transports, tr, boundTo, issued, alive>>
  /\ Quiet

\* an awaited call of handleMcpRequest rejects: the catch block answers 500
\* unless the transport has already written the response head
CatchBlock(s) ==
  /\ Resumable(s, {"connecting", "initializing", "forwarding"})
  /\ \E headersSent \in BOOLEAN :
       /\ headersSent => inflight[s].pc # "connecting"
       /\ Finish(s, IF headersSent THEN ByTransport(inflight[s].t) ELSE InternalError)
  /\ UNCHANGED <<transports, tr, boundTo, issued, alive>>
  /\ Quiet

\* after await transport.handleRequest in the delete handler
DeleteResume(s) ==
  /\ Resumable(s, {"deleting"})
  /\ transports' = MapDelete(transports, inflight[s].sid)
  /\ Finish(s, ByTransport(inflight[s].t))
  /\ UNCHANGED <<tr, boundTo, issued, alive>>
  /\ Quiet

\* the awaited call of the delete handler rejects: nothing catches it.  The
\* rejection either ends the process (unhandled rejection), and the memory of
\* the process with it, or reaches the framework's error handler, which
\* answers 500.
DeleteThrows(s) ==
  /\ Resumable(s, {"deleting"})
  /\ \/ /\ alive' = FALSE
        /\ transports' = EmptyMap /\ tr' = <<>> /\ boundTo' = EmptyMap /\ issued' = 0
        /\ inflight' = [x \in Slots |-> Idle]
        /\ last' = NoResponse
     \/ /\ Finish(s, PlainError(500, "Internal Server Error", "express"))
        /\ UNCHANGED <<transports, tr, boundTo, issued, alive>>
  /\ Quiet

\* the transport closes (DELETE handled by the transport, close() by the
\* library): its onclose callback, if the handler has installed one, runs
TransportClose(t) ==
  /\ alive /\ pending = NoRequest
  /\ t \in 1..Len(tr) /\ ~tr[t].closed
  /\ tr' = [tr EXCEPT ![t].closed = TRUE]
  /\ transports' = IF tr[t].onclose # 0 THEN MapDelete(transports, tr[t].onclose)
                   ELSE transports
  /\ UNCHANGED <<boundTo, issued, inflight, last, alive>>
  /\ Quiet

(* ---------------------- ContextStore (context-store.ts) --------------- *)

\* private cacheTTL: number = 5 * 60 * 1000
cacheTTL == 5 * 60 * 1000

\* a field of a record of the documentation table: a string, or missing
NoField == [present |-> FALSE, value |-> <<>>]
Field(w) == [present |-> TRUE, value |-> w]

\* String(fields.Modul || "")
modulOf(fields) == IF fields.Modul.present THEN fields.Modul.value ELSE <<>>

\* String.prototype.includes
includes(s, sub) ==
  \E k \in 0..(Len(s) - Len(sub)) : SubSeq(s, k + 1, k + Len(sub)) = sub

\* the value records.map((r) => r.fields) of upstream fetch f
Snapshot(f) == [fetch |-> f, records |-> dokuTable]
NoData == [fetch |-> 0, records |-> <<>>]

\* allRecordsCache = null
NoCache == [present |-> FALSE, data |-> NoData, expires |-> 0]

\* a freshness test that still serves the cache at the expiry instant
isFreshInclusive(cache, t) == cache.present /\ cache.expires >= t

\* this.allRecordsCache && this.allRecordsCache.expires > Date.now()
isFresh(cache, t) == cache.present /\ cache.expires > t

\* a store that keeps the expiry of the entry it replaces
cacheEntryKeepingExpiry(data, t) ==
  [present |-> TRUE, data |-> data,
   expires |-> IF allRecordsCache.present THEN allRecordsCache.expires ELSE t + cacheTTL]

\* { data, expires: Date.now() + this.cacheTTL }
cacheEntry(data, t) == [present |-> TRUE, data |-> data, expires |-> t + cacheTTL]

\* the result null of getModuleContext
NullContext ==
  [present |-> FALSE, moduleName |-> <<>>, processDescription |-> 0,
   relatedTableIds |-> <<>>]

recordToContext(fields, fallbackName) ==
  [present |-> TRUE,
   moduleName |-> IF modulOf(fields) # <<>> THEN modulOf(fields) ELSE fallbackName,
   processDescription |-> fields.Prozessbeschreibung,
   \* String(fields.Tabellen_Mapping || "").split(",") ... .filter(Boolean);
   \* the field is held as the list of its comma-separated items
   relatedTableIds |-> SelectSeq(fields.Tabellen_Mapping, LAMBDA id : id # <<>>)]

\* Array.prototype.find: the index of the first record for which the
\* callback gave true (hits[i]), 0 when there is none
find(hits) ==
  IF \E i \in 1..Len(hits) : hits[i]
  THEN CHOOSE i \in 1..Len(hits) : hits[i] /\ \A j \in 1..(i - 1) : ~hits[j]
  ELSE 0

\* a lookup that knows the exact match only
matchModuleExactOnly(allRecords, moduleName) ==
  LET record == find([i \in 1..Len(allRecords) |->
        toLowerCase(modulOf(allRecords[i])) = toLowerCase(moduleName)])
  IN IF record = 0 THEN NullContext
     ELSE recordToContext(allRecords[record], moduleName)

\* getModuleContext after getAllRecords has returned allRecords
matchModule(allRecords, moduleName) ==
  LET record == find([i \in 1..Len(allRecords) |->
        toLowerCase(modulOf(allRecords[i])) = toLowerCase(moduleName)])
      partialMatch == find([i \in 1..Len(allRecords) |->
        \/ includes(toLowerCase(modulOf(allRecords[i])), toLowerCase(moduleName))
        \/ includes(toLowerCase(moduleName), toLowerCase(modulOf(allRecords[i])))])
  IN IF record = 0
     THEN IF partialMatch = 0 THEN NullContext
          ELSE recordToContext(allRecords[partialMatch], moduleName)
     ELSE recordToContext(allRecords[record], moduleName)

\* allRecords.map((fields) => String(fields.Modul || "")).filter(Boolean)
moduleNames(allRecords) ==
  LET names == [i \in 1..Len(allRecords) |-> modulOf(allRecords[i])]
  IN SelectSeq(names, LAMBDA w : w # <<>>)
\* what the catch blocks return: null, or []
lookupFailed == [context |-> NullContext, modules |-> <<>>]
Returned(op, name, data, f) ==
  [op |-> op, name |-> name, served |-> data, fetch |-> f, failed |-> FALSE,
   value |-> IF op = "getModuleContext"
             THEN [context |-> matchModule(data.records, name), modules |-> <<>>]
             ELSE [context |-> NullContext, modules |-> moduleNames(data.records)]]

Threw(op, name, f) ==
  [op |-> op, name |-> name, served |-> NoData, fetch |-> f, failed |-> TRUE,
   value |-> lookupFailed]

\* a lookup suspended at await this.ninoxClient.getRecords(...)
NoCall == [pc |-> "idle", op |-> "", name |-> <<>>, fetch |-> 0]
Lookups == 1..MaxLookups

\* the entry point is not involved
SessionsQuiet ==
  UNCHANGED <<config, transports, tr, boundTo, issued, inflight, pending, last,
              alive, listening>>

StoreQuiet == SessionsQuiet /\ UNCHANGED toolResult

\* getModuleContext(name) or listModules() is called and runs getAllRecords
\* up to its await: served from the cache, or getRecords is issued
StartLookup(op, name) ==
  /\ started < MaxStarted
  /\ started' = started + 1
  /\ IF isFresh(allRecordsCache, clock)
     THEN /\ returned' = Returned(op, name, allRecordsCache.data, 0)
          /\ UNCHANGED <<calls, fetchLog>>
     ELSE /\ \E c \in Lookups :
               /\ calls[c] = NoCall
               /\ \A c2 \in Lookups : c2 < c => calls[c2] # NoCall
               /\ calls' = [calls EXCEPT ![c] =
                    [pc |-> "fetching", op |-> op, name |-> name,
                     fetch |-> Len(fetchLog) + 1]]
          /\ fetchLog' = Append(fetchLog, [state |-> "pending", at |-> 0])
          /\ UNCHANGED returned
  /\ UNCHANGED <<dokuTable, allRecordsCache, clock, clearedAfter>>
  /\ StoreQuiet

getModuleContext(names) == \E name \in names : StartLookup("getModuleContext", name)
listModules == StartLookup("listModules", <<>>)

\* getRecords resolves: the snapshot is stored with its expiry and returned
FetchResolved(c) ==
  LET f == calls[c].fetch
      data == Snapshot(f) IN
  /\ calls[c].pc = "fetching"
  /\ allRecordsCache' = cacheEntry(data, clock)
  /\ fetchLog' = [fetchLog EXCEPT ![f] = [state |-> "resolved", at |-> clock]]
  /\ returned' = Returned(calls[c].op, calls[c].name, data, f)
  /\ calls' = [calls EXCEPT ![c] = NoCall]
  /\ UNCHANGED <<dokuTable, clock, started, clearedAfter>>
  /\ StoreQuiet

\* getRecords rejects: the catch block of the lookup logs and returns
FetchRejected(c) ==
  LET f == calls[c].fetch IN
  /\ calls[c].pc = "fetching"
  /\ fetchLog' = [fetchLog EXCEPT ![f] = [state |-> "rejected", at |-> clock]]
  /\ returned' = Threw(calls[c].op, calls[c].name, f)
  /\ calls' = [calls EXCEPT ![c] = NoCall]
  /\ UNCHANGED <<dokuTable, allRecordsCache, clock, started, clearedAfter>>
  /\ StoreQuiet

\* clearCache(); clearedAfter remembers the fetches issued so far
clearCache ==
  /\ allRecordsCache' = NoCache
  /\ clearedAfter' = Len(fetchLog)
  /\ UNCHANGED <<dokuTable, clock, calls, fetchLog, started, returned>>
  /\ StoreQuiet
\* Date.now() moves on
Advance ==
  /\ \E t \in {k * cacheTTL + j : k \in 0..MaxWindows, j \in {-1, 0, 1}} \cap Nat :
       t > clock /\ clock' = t
  /\ UNCHANGED <<dokuTable, allRecordsCache, calls, fetchLog, started, returned, clearedAfter>>
  /\ StoreQuiet
(* ------------------------ tools (server.ts) --------------------------- *)

\* const contextStore = DOKU_TABLE_ID ? new ContextStore(...) : null
contextStore == DOKU_TABLE_ID # <<>>

\* what a tool handler returns: { content: [{type: "text", text}], isError },
\* and the calls of the remote API that failed while it ran
ToolResult(tool, isError, text, failed) ==
  [tool |-> tool, isError |-> isError, text |-> text, failed |-> failed]
\* the store as a tool handler finds it
StoreNow ==
  [cache |-> allRecordsCache, log |-> fetchLog, ret |-> returned, n |-> 0]

\* a lookup awaited by a tool handler, from its call to its return: served
\* from the cache, or getRecords is issued and resolves (ok) or rejects
Lookup(before, op, name, ok) ==
  LET f == Len(before.log) + 1 IN
  IF isFresh(before.cache, clock)
  THEN [before EXCEPT !.ret = Returned(op, name, before.cache.data, 0), !.n = @ + 1]
  ELSE IF ok
  THEN [cache |-> cacheEntry(Snapshot(f), clock),
        log |-> Append(before.log, [state |-> "resolved", at |-> clock]),
        ret |-> Returned(op, name, Snapshot(f), f), n |-> before.n + 1]
  ELSE [cache |-> before.cache,
        log |-> Append(before.log, [state |-> "rejected", at |-> clock]),
        ret |-> Threw(op, name, f), n |-> before.n + 1]

\* the getRecords calls that failed between two states of the store
FailedFetches(before, after) ==
  IF \E f \in (Len(before.log) + 1)..Len(after.log) : after.log[f].state = "rejected"
  THEN {"getRecords"} ELSE {}

\* the tool handler returns result and leaves the store as after
ToolReturns(result, after) ==
  /\ started + after.n <= MaxStarted
  /\ toolResult' = result
  /\ allRecordsCache' = after.cache
  /\ fetchLog' = after.log
  /\ returned' = after.ret
  /\ started' = started + after.n
  /\ UNCHANGED <<dokuTable, clock, calls, clearedAfter>>
  /\ SessionsQuiet

\* server.tool("list_modules", ...)
list_modules ==
  \E e \in [fullDb : {"ok", "fail"}, list : {"ok", "fail"}, records : BOOLEAN] :
    LET schemaFailed ==
          (IF e.fullDb = "fail" THEN {"getFullDatabaseSchema"} ELSE {})
            \cup (IF e.fullDb = "fail" /\ e.list = "fail" THEN {"listTables"} ELSE {})
        after == IF contextStore THEN Lookup(StoreNow, "listModules", <<>>, e.records)
                 ELSE StoreNow
    IN IF e.fullDb = "fail" /\ e.list = "fail"
       THEN ToolReturns(ToolResult("list_modules", TRUE, "Fehler beim Abrufen der Module", schemaFailed), StoreNow)
       ELSE ToolReturns(
              ToolResult("list_modules", FALSE,
                         IF e.fullDb = "ok" THEN "Module" ELSE "Module (Fallback-Modus)",
                         schemaFailed \cup FailedFetches(StoreNow, after)),
              after)

\* server.tool("get_schema", ...)
get_schema ==
  \E e \in [fullTable : {"ok", "none", "fail"}, table : {"ok", "fail"}] :
    IF e.fullTable = "fail"
    THEN ToolReturns(ToolResult("get_schema", TRUE, "Fehler beim Abrufen des Schemas", {"getFullTableSchema"}), StoreNow)
    ELSE IF e.fullTable = "ok"
    THEN ToolReturns(ToolResult("get_schema", FALSE, "Tabelle", {}), StoreNow)
    ELSE IF e.table = "ok"
    THEN ToolReturns(ToolResult("get_schema", FALSE, "Tabelle (Fallback)", {}), StoreNow)
    ELSE ToolReturns(ToolResult("get_schema", TRUE, "Fehler beim Abrufen des Schemas", {"getTableSchema"}), StoreNow)

\* server.tool("get_context", ...)
get_context(names) ==
  \E e \in [records : BOOLEAN, recordsAgain : BOOLEAN], moduleName \in names :
    IF ~contextStore
    THEN ToolReturns(ToolResult("get_context", TRUE, "Kontextwissen nicht verfügbar", {}), StoreNow)
    ELSE LET first == Lookup(StoreNow, "getModuleContext", moduleName, e.records)
             context == first.ret.value.context
             second == Lookup(first, "listModules", <<>>, e.recordsAgain)
         IN IF ~context.present
            THEN ToolReturns(
                   ToolResult("get_context", FALSE, "Kein Kontextwissen gefunden",
                              FailedFetches(StoreNow, second)),
                   second)
            ELSE ToolReturns(ToolResult("get_context", FALSE, "Kontextwissen", {}), first)

\* server.tool("get_full_module_info", ...)
get_full_module_info(names) ==
  \E e \in [records : BOOLEAN, fullTable : {"ok", "none", "fail"}, table : {"ok", "fail"},
             fullDb : {"ok", "fail"}, list : {"ok", "fail"}], moduleName \in names :
    LET after == IF contextStore
                 THEN Lookup(StoreNow, "getModuleContext", moduleName, e.records)
                 ELSE StoreNow
        context == IF contextStore THEN after.ret.value.context ELSE NullContext
        relatedTableIds == IF context.present THEN context.relatedTableIds ELSE <<>>
        lookupFailures == FailedFetches(StoreNow, after)
        tableFailed ==
          IF e.fullTable = "fail" THEN {"getFullTableSchema"}
          ELSE IF e.fullTable = "none" /\ e.table = "fail" THEN {"getTableSchema"}
          ELSE {}
    IN IF relatedTableIds # <<>>
       THEN ToolReturns(ToolResult("get_full_module_info", FALSE, "Schema", lookupFailures \cup tableFailed), after)
       ELSE IF e.fullDb = "ok"
       THEN ToolReturns(ToolResult("get_full_module_info", FALSE, "Schema (Name-Matching)", lookupFailures), after)
       ELSE IF e.list = "fail"
       THEN ToolReturns(ToolResult("get_full_module_info", TRUE, "Fehler",
                                   lookupFailures \cup {"getFullDatabaseSchema", "listTables"}), after)
       ELSE ToolReturns(
              ToolResult("get_full_module_info", FALSE, "Schema (Fallback)",
                         lookupFailures \cup {"getFullDatabaseSchema"}
                           \cup (IF e.table = "fail" THEN {"getTableSchema"} ELSE {})),
              after)

\* server.tool("query_data", ...)
query_data ==
  \E e \in [query : {"ok", "fail"}] :
    IF e.query = "ok"
    THEN ToolReturns(ToolResult("query_data", FALSE, "Query-Ergebnis", {}), StoreNow)
    ELSE ToolReturns(ToolResult("query_data", TRUE, "Fehler bei Query", {"executeQuery"}), StoreNow)

(* ------------------------------ startup ------------------------------- *)

\* MCP_SECRET_PATH.length < 16
MinSecretLength == 16

\* server.ts:28
ninoxConfigMissing ==
  NINOX_API_KEY = <<>> \/ NINOX_TEAM_ID = <<>> \/ NINOX_DATABASE_ID = <<>>

\* ninox-client.ts:288 and :297
secretPathRejected ==
  MCP_SECRET_PATH = <<>> \/ Len(MCP_SECRET_PATH) < MinSecretLength

\* the modules load: server.ts checks the database settings, the
\* secret-path entry point checks the secret, each ends the process with
\* process.exit(1); otherwise app.listen is reached
Startup ==
  /\ alive /\ ~listening
  /\ IF ninoxConfigMissing \/ (mode = "secretpath" /\ secretPathRejected)
     THEN alive' = FALSE /\ UNCHANGED listening
     ELSE listening' = TRUE /\ UNCHANGED alive
  /\ UNCHANGED <<config, store, transports, tr, boundTo, issued, inflight, pending, last>>

(* --------------------------- specification ---------------------------- *)

\* a string of n characters that ends with c
SecretOf(n, c) == [i \in 1..n |-> IF i = n THEN c ELSE "s"]
Secret16 == SecretOf(MinSecretLength, "a")
ApiKey == <<"k">>

\* a configuration with which the process has reached app.listen
Started ==
  /\ NINOX_API_KEY = ApiKey /\ NINOX_TEAM_ID = ApiKey /\ NINOX_DATABASE_ID = ApiKey
  /\ listening = TRUE

InitState ==
  /\ transports = EmptyMap
  /\ tr = <<>>
  /\ boundTo = IF mode = "bearer" THEN MapSet(EmptyMap, 0, 0) ELSE EmptyMap
  /\ issued = 0
  /\ inflight = [s \in Slots |-> Idle]
  /\ pending = NoRequest
  /\ last = NoResponse
  /\ alive = TRUE
  /\ allRecordsCache = NoCache
  /\ clock = 0
  /\ calls = [c \in Lookups |-> NoCall]
  /\ fetchLog = <<>>
  /\ started = 0
  /\ returned = [op |-> "", name |-> <<>>, served |-> NoData, fetch |-> 0,
                 failed |-> FALSE, value |-> lookupFailed]
  /\ clearedAfter = 0
  /\ toolResult = ToolResult("", FALSE, "", {})

\* a record of the documentation table
Doku(modul, n, tables) ==
  [Modul |-> modul, Prozessbeschreibung |-> n, Tabellen_Mapping |-> tables]
\* the documentation table is configured
Documented ==
  /\ DOKU_TABLE_ID = <<"D">>
  /\ dokuTable = <<Doku(Field(<<"a">>), 1, <<<<"T">>, <<>>>>), Doku(Field(<<"b">>), 2, <<>>)>>

TokenX == <<"x">>

Init ==
  /\ mode \in {"bearer", "secretpath"}
  /\ MCP_AUTH_TOKEN = IF mode = "bearer" THEN TokenX ELSE <<>>
  /\ IP_WHITELIST_ENABLED = TRUE
  /\ MCP_SECRET_PATH = IF mode = "bearer" THEN <<>> ELSE Secret16
  /\ Started
  /\ InitState
  /\ Documented

LegacyIp == V4(34, 162, 46, 92)
Loopback == V4(127, 0, 0, 1)
Outsider == V4(160, 79, 112, 1)

\* inputs of the session specification
PostBodies ==
  {NoBody, ObjectBody("initialize", "1"), ObjectBody("tools/call", "1"),
   ArrayBody(<<"null">>), ArrayBody(<<"other", "init">>)}
SessionRequests ==
  IF mode = "bearer"
  THEN [paths |-> {McpRoute}, auths |-> {NoHeader, Header(TokenX), Header(<<"y">>)},
        ips |-> {Named("")}, sids |-> 0..MaxSessions, bodies |-> PostBodies]
  ELSE [paths |-> {McpRoute}, auths |-> {NoHeader}, ips |-> {LegacyIp, Outsider},
        sids |-> 0..MaxSessions, bodies |-> PostBodies]
GetHealth ==
  Arrive("GET", [paths |-> {HealthPath}, auths |-> {NoHeader}, ips |-> {Outsider},
                 sids |-> {0}, bodies |-> {NoBody}])

Next ==
  \/ PostMcp(SessionRequests)
  \/ GetMcp(SessionRequests)
  \/ DeleteMcp(SessionRequests)
  \/ GetHealth
  \/ Dispatch
  \/ Release
  \/ \E s \in Slots : ConnectResolved(s)
  \/ \E s \in Slots : InitResume(s)
  \/ \E s \in Slots : ForwardResolved(s)
  \/ \E s \in Slots : CatchBlock(s)
  \/ \E s \in Slots : DeleteResume(s)
  \/ \E s \in Slots : DeleteThrows(s)
  \/ \E t \in 1..MaxSessions : TransportClose(t)

Spec == Init /\ [][Next]_vars

(* ------------- the bearer filter over tokens and headers ------------- *)

RECURSIVE Words(_)
\* the strings over {x, y} of length at most n
Words(n) ==
  IF n = 0 THEN {<<>>}
  ELSE Words(n - 1) \cup {Append(w, c) : w \in {v \in Words(n - 1) : Len(v) = n - 1}, c \in {"x", "y"}}
AuthProbes ==
  [paths |-> {McpRoute},
   \* Authorization headers: absent, or a word after up to two "Bearer "
   auths |-> {NoHeader} \cup {Header(w) : w \in Words(MaxTokenLen)}
               \cup {Header(BearerPrefix \o w) : w \in Words(MaxTokenLen)}
               \cup {Header(BearerPrefix \o BearerPrefix \o w) : w \in Words(MaxTokenLen)},
   ips |-> {Named("")},
   sids |-> {0}, bodies |-> {NoBody}]

InitAuth ==
  /\ mode = "bearer"
  /\ MCP_AUTH_TOKEN \in Words(MaxTokenLen) \cup {BearerPrefix \o w : w \in Words(MaxTokenLen)}
  /\ IP_WHITELIST_ENABLED = TRUE
  /\ MCP_SECRET_PATH = <<>>
  /\ Started
  /\ InitState
  /\ Documented

NextAuth ==
  \/ PostMcp(AuthProbes)
  \/ GetMcp(AuthProbes)
  \/ DeleteMcp(AuthProbes)
  \/ Dispatch
  \/ Release

SpecAuth == InitAuth /\ [][NextAuth]_vars

(* ------------------ the allowlist over addresses ---------------------- *)
ProbeV4 ==
  {V4(a, b, c, d) : a \in {34, 127, 160}, b \in {0, 79, 162},
                    c \in {0, 46, 102, 103, 104, 111, 112, 136, 142, 183},
                    d \in {0, 1, 82, 91, 92, 95, 255}}
IpProbes ==
  [paths |-> {McpRoute}, auths |-> {NoHeader},
   ips |-> ProbeV4 \cup {Mapped(ip) : ip \in ProbeV4}
             \cup {Named("::1"), Named("localhost"), Named(""), Named("2001:db8::1")},
   sids |-> {0}, bodies |-> {NoBody}]

InitIp ==
  /\ mode = "secretpath"
  /\ MCP_AUTH_TOKEN = <<>>
  /\ IP_WHITELIST_ENABLED \in BOOLEAN
  /\ MCP_SECRET_PATH = Secret16
  /\ Started
  /\ InitState
  /\ Documented

NextIp ==
  \/ PostMcp(IpProbes)
  \/ GetMcp(IpProbes)
  \/ DeleteMcp(IpProbes)
  \/ Dispatch
  \/ Release

SpecIp == InitIp /\ [][NextIp]_vars

(* ------------------ the route table over request paths ---------------- *)

\* configured secrets: two of the minimum length
PathSecrets == {Secret16, SecretOf(MinSecretLength, "b")}
PathProbes ==
  [paths |-> {Path("/mcp", NoSegment), HealthPath, Path("/other", NoSegment)}
               \* the secrets, a secret in another case, a shorter string
               \cup {Path("/mcp", Segment(w)) :
                       w \in PathSecrets \cup {SecretOf(MinSecretLength, "A"),
                                               SecretOf(MinSecretLength - 1, "a")}},
   auths |-> {NoHeader}, ips |-> {LegacyIp, Outsider},
   sids |-> {0, 1}, bodies |-> {NoBody, ObjectBody("initialize", "1")}]

InitPath ==
  /\ mode = "secretpath"
  /\ MCP_AUTH_TOKEN = <<>>
  /\ IP_WHITELIST_ENABLED = TRUE
  /\ MCP_SECRET_PATH \in PathSecrets
  /\ Started
  /\ InitState
  /\ Documented

NextPath ==
  \/ PostMcp(PathProbes)
  \/ GetMcp(PathProbes)
  \/ DeleteMcp(PathProbes)
  \/ Arrive("PUT", PathProbes)
  \/ Dispatch
  \/ Release
  \/ \E s \in Slots : ConnectResolved(s)
  \/ \E s \in Slots : InitResume(s)
  \/ \E s \in Slots : ForwardResolved(s)
  \/ \E s \in Slots : DeleteResume(s)

SpecPath == InitPath /\ [][NextPath]_vars

(* ----------------------- the start of the process --------------------- *)
StartRequests ==
  [paths |-> {McpRoute}, auths |-> {Header(TokenX)}, ips |-> {LegacyIp},
   sids |-> {0, 1}, bodies |-> {ObjectBody("initialize", "1")}]

\* the process before its modules have loaded
InitStart ==
  /\ mode \in {"bearer", "secretpath"}
  /\ MCP_AUTH_TOKEN = IF mode = "bearer" THEN TokenX ELSE <<>>
  /\ IP_WHITELIST_ENABLED = TRUE
  /\ MCP_SECRET_PATH \in
       (IF mode = "bearer" THEN {<<>>}
        ELSE {<<>>, SecretOf(MinSecretLength - 1, "a"), Secret16,
              SecretOf(MinSecretLength + 1, "a")})
  /\ NINOX_API_KEY \in {<<>>, ApiKey}
  /\ NINOX_TEAM_ID \in {<<>>, ApiKey}
  /\ NINOX_DATABASE_ID \in {<<>>, ApiKey}
  /\ listening = FALSE
  /\ InitState
  /\ Documented

NextStart ==
  \/ Startup
  \/ PostMcp(StartRequests)
  \/ DeleteMcp(StartRequests)
  \/ Dispatch
  \/ Release
  \/ \E s \in Slots : ConnectResolved(s)
  \/ \E s \in Slots : InitResume(s)
  \/ \E s \in Slots : DeleteResume(s)
  \/ \E s \in Slots : DeleteThrows(s)

SpecStart == InitStart /\ [][NextStart]_vars

(* ------------------ the rejection over request bodies ----------------- *)
BodyProbes ==
  [paths |-> {McpRoute}, auths |-> {Header(TokenX)}, ips |-> {LegacyIp},
   sids |-> {0, 1},
   bodies |-> {NoBody, ArrayBody(<<"other">>)}
                \cup {ObjectBody(m, i) : m \in {"tools/call", "ping"}, i \in {"absent", "null", "0", "1", "\"\"", "\"a\""}}]

NextBody ==
  \/ PostMcp(BodyProbes)
  \/ GetMcp(BodyProbes)
  \/ DeleteMcp(BodyProbes)
  \/ Dispatch
  \/ Release

SpecBody == Init /\ [][NextBody]_vars

(* ------------------- the documentation cache over time ---------------- *)

\* the entry point at rest, the documentation table configured
InitCache ==
  /\ mode = "bearer"
  /\ MCP_AUTH_TOKEN = TokenX
  /\ IP_WHITELIST_ENABLED = TRUE
  /\ MCP_SECRET_PATH = <<>>
  /\ Started
  /\ InitState
  /\ Documented
NextCache ==
  \/ getModuleContext({<<"a">>, <<"x">>})
  \/ listModules
  \/ \E c \in Lookups : FetchResolved(c)
  \/ \E c \in Lookups : FetchRejected(c)
  \/ clearCache
  \/ Advance

SpecCache == InitCache /\ [][NextCache]_vars

(* ------------------- getModuleContext over record lists --------------- *)
InitMatch ==
  /\ mode = "bearer"
  /\ MCP_AUTH_TOKEN = TokenX
  /\ IP_WHITELIST_ENABLED = TRUE
  /\ MCP_SECRET_PATH = <<>>
  /\ Started
  /\ InitState
  /\ DOKU_TABLE_ID = <<"D">>
  \* lists of up to MaxRecords records whose Modul is missing, empty or a
  \* word in either case; Prozessbeschreibung tells the records apart
  /\ \E l \in UNION {[1..n -> {NoField, Field(<<>>), Field(<<"a">>), Field(<<"A">>),
                                Field(<<"a", "b">>), Field(<<"b">>)}] : n \in 0..MaxRecords} :
       dokuTable = [i \in 1..Len(l) |-> Doku(l[i], i, <<>>)]

NextMatch ==
  \/ getModuleContext({<<>>, <<"a">>, <<"A">>, <<"b">>, <<"A", "b">>, <<"x">>})
  \/ \E c \in Lookups : FetchResolved(c)

SpecMatch == InitMatch /\ [][NextMatch]_vars

(* ---------------------------- tool calls ------------------------------ *)

InitTools ==
  /\ mode = "bearer"
  /\ MCP_AUTH_TOKEN = TokenX
  /\ IP_WHITELIST_ENABLED = TRUE
  /\ MCP_SECRET_PATH = <<>>
  /\ Started
  /\ InitState
  /\ DOKU_TABLE_ID \in {<<>>, <<"D">>}
  /\ dokuTable = <<Doku(Field(<<"a">>), 1, <<<<"T">>, <<>>>>), Doku(Field(<<"b">>), 2, <<>>)>>
NextTools ==
  \/ list_modules
  \/ get_schema
  \/ get_context({<<"a">>, <<"b">>, <<"x">>})
  \/ get_full_module_info({<<"a">>, <<"b">>, <<"x">>})
  \/ query_data

SpecTools == InitTools /\ [][NextTools]_vars

(* ------------------------------ claims -------------------------------- *)

\* the handler of pending has run and has answered at once
Handled == pending # NoRequest /\ last # NoResponse
\* pending has arrived and its handler is about to run
Arrived == pending # NoRequest /\ last = NoResponse

OnRoute(req) == req.path = McpRoute
IsRejection(resp) == resp.by = "filter"

\* the body is a message with method initialize or a batch holding one
ContainsInitialize(body) ==
  \/ body.kind = "object" /\ body.method = "initialize"
  \/ body.kind = "array" /\ \E i \in 1..Len(body.items) : body.items[i] = "init"

\* C1: a POST or GET that reaches handleMcpRequest, names no entry of the
\* session map and is no POST carrying an initialize message is answered
\* with the -32000 envelope; no transport is called, the map is unchanged.
C1_NoSessionRejected ==
  [][ ( /\ Arrived
        /\ pending.method \in {"POST", "GET"}
        /\ OnRoute(pending)
        /\ securityFilter(pending).status = 0
        /\ pending.sid \notin DOMAIN transports
        /\ ~(pending.method = "POST" /\ ContainsInitialize(pending.body)) )
      => ( /\ last'.status = 400 /\ last'.code = -32000
           /\ UNCHANGED <<transports, tr, inflight>> ) ]_vars

\* C2: an entry is added to the session map only by the resumption of a
\* handler that constructed its transport, and a handler constructs a
\* transport only for a POST carrying an initialize message whose session
\* header names no entry of the map.
C2_CreatedOnlyByInitialize ==
  [][ /\ \A k \in DOMAIN transports' \ DOMAIN transports :
           \E s \in Slots : /\ inflight[s].pc = "initializing"
                            /\ inflight'[s] = Idle
                            /\ transports'[k] = inflight[s].t
      /\ \A s \in Slots :
           /\ (inflight'[s].pc = "connecting" /\ inflight[s].pc # "connecting")
                => /\ Arrived
                   /\ pending.method = "POST"
                   /\ ContainsInitialize(pending.body)
                   /\ pending.sid \notin DOMAIN transports
                   /\ securityFilter(pending).status = 0
                   /\ inflight'[s].t \notin DOMAIN tr
           /\ (inflight'[s].pc = "initializing" /\ inflight[s].pc # "initializing")
                => inflight[s].pc = "connecting" /\ inflight'[s].t = inflight[s].t
      /\ Arrived => transports' = transports ]_vars

W2_SessionCreated ==
  \E k \in DOMAIN transports : tr[transports[k]].onclose = k /\ ~tr[transports[k]].closed

\* C3: a request whose session header names an entry of the map is passed to
\* the transport stored under that identifier, which is the transport that
\* took that identifier, and to no other; nothing else is constructed.
C3_ForwardedToOwnTransport ==
  [][ ( /\ Arrived
        /\ OnRoute(pending)
        /\ securityFilter(pending).status = 0
        /\ pending.sid \in DOMAIN transports )
      => ( /\ \E s \in Slots :
                /\ inflight[s] = Idle
                /\ inflight'[s].pc = (IF pending.method = "DELETE" THEN "deleting" ELSE "forwarding")
                /\ inflight'[s].t = transports[pending.sid]
                /\ tr[inflight'[s].t].sessionId = pending.sid
                /\ \A s2 \in Slots \ {s} : inflight'[s2] = inflight[s2]
           /\ UNCHANGED <<transports, tr, boundTo>> ) ]_vars

W3_ForwardedAmongTwo ==
  /\ Cardinality(DOMAIN transports) = 2
  /\ \E s \in Slots : /\ inflight[s].pc = "forwarding"
                      /\ inflight[s].sid = 1
                      /\ inflight[s].t = transports[1]

\* C4: an identifier entering the session map was never registered before
\* and belongs to no other transport, and an identifier in the map keeps its
\* transport for as long as it stays in the map.
C4_UniqueStableBinding ==
  [][ \A k \in DOMAIN transports' :
        IF k \in DOMAIN transports
        THEN transports'[k] = transports[k]
        ELSE \A t \in DOMAIN tr :
               /\ tr[t].onclose # k
               /\ t # transports'[k] => tr[t].sessionId # k ]_vars

W4_TwoSessions ==
  /\ Cardinality(DOMAIN transports) = 2
  /\ transports[1] # transports[2]

\* C5: two sessions of the map never share a McpServer instance, and the
\* instance of every session is still connected to that session's transport.
C5_OwnRegistryPerSession ==
  \A k1 \in DOMAIN transports :
    /\ boundTo[tr[transports[k1]].server] = transports[k1]
    /\ \A k2 \in DOMAIN transports \ {k1} :
         tr[transports[k1]].server # tr[transports[k2]].server

\* the header is the token or "Bearer " followed by the token
Matches(token, hdr) ==
  hdr.present /\ (hdr.value = token \/ hdr.value = BearerPrefix \o token)

\* C6: authMiddleware passes a request on exactly when no token is
\* configured or the Authorization header is the token or "Bearer " + token.
C6_BearerAcceptance ==
  (Handled /\ mode = "bearer")
    => (~IsRejection(last) <=> (MCP_AUTH_TOKEN = <<>> \/ Matches(MCP_AUTH_TOKEN, pending.auth)))

Unauthorized401 ==
  JsonRpcError(401, -32001, "null", "Unauthorized: Authorization header fehlt", "filter")
Forbidden403 ==
  JsonRpcError(403, -32001, "null", "Forbidden: Ungueltiger Token", "filter")

\* C7 as stated: with a token configured, no header gives 401 and a header
\* that is present and does not match gives 403.
C7_AbsentVersusWrong ==
  (Handled /\ mode = "bearer" /\ MCP_AUTH_TOKEN # <<>>)
    => /\ ~pending.auth.present => last = Unauthorized401
       /\ (pending.auth.present /\ ~Matches(MCP_AUTH_TOKEN, pending.auth))
            => last = Forbidden403

\* C7 (amended): with a token configured, an absent or empty header gives
\* 401 and a non-empty header that does not match gives 403, both as
\* envelopes with code -32001 and id null.
C7_EmptyVersusWrong ==
  (Handled /\ mode = "bearer" /\ MCP_AUTH_TOKEN # <<>>)
    => /\ ~Truthy(pending.auth) => last = Unauthorized401
       /\ (Truthy(pending.auth) /\ ~Matches(MCP_AUTH_TOKEN, pending.auth))
            => last = Forbidden403

W7_WrongTokenForbidden ==
  /\ Handled /\ MCP_AUTH_TOKEN # <<>>
  /\ Truthy(pending.auth) /\ ~Matches(MCP_AUTH_TOKEN, pending.auth)
  /\ last.status = 403

\* C8: a request on the protocol route that the security filter rejects is
\* answered by the filter alone: the session map, the transports, the
\* server bindings and the suspended handlers are as before.
C8_FilterBeforeSessions ==
  [][ ( /\ Arrived
        /\ OnRoute(pending)
        /\ securityFilter(pending).status # 0 )
      => ( /\ last' = securityFilter(pending)
           /\ UNCHANGED <<transports, tr, boundTo, issued, inflight>> ) ]_vars

W8_RejectedWithActiveSession ==
  /\ Handled /\ IsRejection(last)
  /\ pending.sid \in DOMAIN transports
  /\ pending.method = "DELETE"

Forbidden == JsonRpcError(403, -32001, "null", "Forbidden", "filter")

\* C9: with the allowlist enabled, an IPv4 address of 160.79.104.0/21 or a
\* legacy address is let through and every other address but loopback is
\* answered 403.
C9_AllowlistBoundary ==
  LET InPrimaryCidr(octets) ==
        octets[1] = 160 /\ octets[2] = 79 /\ octets[3] \in 104..111
  IN
  (Handled /\ mode = "secretpath" /\ IP_WHITELIST_ENABLED /\ OnRoute(pending)
     /\ pending.ip.kind = "v4" /\ ~pending.ip.mapped
     /\ pending.ip.octets # <<127, 0, 0, 1>>)
    => IF InPrimaryCidr(pending.ip.octets) \/ pending.ip.octets \in LegacyIps
       THEN ~IsRejection(last)
       ELSE last = Forbidden

\* C10: a request from a loopback address passes the filter exactly when
\* the allowlist is disabled; with it enabled the answer is the 403
\* "Forbidden" envelope.
C10_LoopbackOnlyWhenDisabled ==
  (Handled /\ mode = "secretpath" /\ OnRoute(pending) /\ pending.ip \in {Loopback, Named("::1"), Mapped(Loopback)})
    => /\ ~IsRejection(last) <=> ~IP_WHITELIST_ENABLED
       /\ IP_WHITELIST_ENABLED => last = Forbidden

W10_LoopbackRejected ==
  /\ Handled /\ IP_WHITELIST_ENABLED
  /\ pending.ip = Mapped(Loopback)
  /\ last = Forbidden

\* the address without its "::ffff:" prefix
Unwrapped(ip) == [ip EXCEPT !.mapped = FALSE]

\* C11: for an IPv4 address in its IPv6-mapped form, isAnthropicIp decides
\* as it decides for the plain form, and with the allowlist enabled the
\* filter lets the mapped form through exactly when it lets the plain form
\* through.
C11_MappedSameAsPlain ==
  (Handled /\ mode = "secretpath" /\ OnRoute(pending)
     /\ pending.ip.kind = "v4" /\ pending.ip.mapped)
    => /\ isAnthropicIp(pending.ip) = isAnthropicIp(Unwrapped(pending.ip))
       /\ IP_WHITELIST_ENABLED
            => (~IsRejection(last) <=> isAnthropicIp(Unwrapped(pending.ip)))

W11_MappedLegacyAllowed ==
  /\ Handled /\ IP_WHITELIST_ENABLED
  /\ pending.ip = Mapped(LegacyIp)
  /\ isAnthropicIp(LegacyIp)
  /\ ~IsRejection(last)

\* C12: in secret-path mode a request of any method to /mcp or to
\* /mcp/<segment> with a segment other than the secret is answered 404
\* {error: "Not found"}, whatever the segment, the address and the secret,
\* and nothing of the session state is touched.
C12_WrongPathNotFound ==
  [][ ( /\ Arrived /\ mode = "secretpath"
        /\ pending.path.base = "/mcp"
        /\ ~pending.path.seg.present \/ pending.path.seg.value # MCP_SECRET_PATH )
      => ( /\ last' = NotFound
           /\ UNCHANGED <<transports, tr, boundTo, issued, inflight>> ) ]_vars

\* C13: with the allowlist enabled, a client at a disallowed address gets
\* for a request on the secret path the answer it gets on a wrong-guess
\* path under /mcp/, which is the 404 of the catch-all route.
C13_RejectionHidesEndpoint ==
  (Handled /\ mode = "secretpath" /\ IP_WHITELIST_ENABLED
     /\ ~isAnthropicIp(pending.ip)
     /\ pending.path.base = "/mcp" /\ pending.path.seg.present)
    => last = NotFound

\* the database settings are all set and, in secret-path mode, the secret
\* has at least the minimum length
ConfigAccepted ==
  /\ NINOX_API_KEY # <<>> /\ NINOX_TEAM_ID # <<>> /\ NINOX_DATABASE_ID # <<>>
  /\ mode = "secretpath" => Len(MCP_SECRET_PATH) >= MinSecretLength

\* C14: the process listens only with an accepted configuration (a secret
\* of exactly the minimum length is accepted); with any other it exits
\* without having listened; and once it listens nothing ends it.
C14_ListenOnlyIfConfigured ==
  [][ /\ listening' => ConfigAccepted
      /\ (alive /\ ~listening /\ ~ConfigAccepted) => (~alive' /\ ~listening')
      /\ (alive /\ ~listening /\ ConfigAccepted) => (alive' /\ listening')
      /\ (alive /\ listening) => alive' ]_vars

\* the entries of m other than k are entries of n, unchanged
OthersKept(m, n, k) ==
  \A j \in DOMAIN m \ {k} : j \in DOMAIN n /\ n[j] = m[j]

\* C15: when the transport of a registered session closes, the entry of the
\* session leaves the map and the other entries stay; a later POST or GET
\* with the identifier of a session so removed, other than an initialize
\* POST, is answered 400 with code -32000.
C15_CloseRemovesSession ==
  [][ /\ \A t \in DOMAIN tr :
           (t \in DOMAIN tr' /\ ~tr[t].closed /\ tr'[t].closed /\ tr[t].onclose # 0)
             => /\ tr[t].onclose \notin DOMAIN transports'
                /\ OthersKept(transports, transports', tr[t].onclose)
      /\ ( /\ Arrived
           /\ pending.method \in {"POST", "GET"}
           /\ OnRoute(pending)
           /\ securityFilter(pending).status = 0
           /\ pending.sid # 0 /\ pending.sid \notin DOMAIN transports
           /\ \E t \in DOMAIN tr : tr[t].closed /\ tr[t].onclose = pending.sid
           /\ ~(pending.method = "POST" /\ ContainsInitialize(pending.body)) )
         => (last'.status = 400 /\ last'.code = -32000) ]_vars

\* C16: a DELETE naming an active session is passed to the transport of the
\* session with the map as it was; the entry is removed when the handler
\* resumes after the transport's answer, and no other entry changes; an
\* entry leaves the map only so, by the close callback of its transport or
\* with the process.
C16_DeleteAfterTransport ==
  [][ /\ ( /\ Arrived
           /\ pending.method = "DELETE"
           /\ OnRoute(pending)
           /\ securityFilter(pending).status = 0
           /\ pending.sid \in DOMAIN transports )
         => /\ transports' = transports
            /\ \E s \in Slots :
                 /\ inflight[s] = Idle
                 /\ inflight'[s] = [pc |-> "deleting", sid |-> pending.sid,
                                    t |-> transports[pending.sid]]
      /\ \A s \in Slots :
           (inflight[s].pc = "deleting" /\ inflight'[s] = Idle /\ last'.by = "transport")
             => /\ inflight[s].sid \notin DOMAIN transports'
                /\ OthersKept(transports, transports', inflight[s].sid)
      /\ \A k \in DOMAIN transports \ DOMAIN transports' :
           \/ ~alive'
           \/ \E s \in Slots : /\ inflight[s] = [pc |-> "deleting", sid |-> k, t |-> transports[k]]
                               /\ inflight'[s] = Idle
           \/ \E t \in DOMAIN tr : tr[t].onclose = k /\ ~tr[t].closed /\ tr'[t].closed ]_vars

W16_DeletedOneOfTwo ==
  /\ pending = NoRequest /\ last.by = "transport"
  /\ Cardinality(DOMAIN transports) = 1
  /\ \E t \in DOMAIN tr : /\ last.target = t
                          /\ tr[t].onclose # 0 /\ ~tr[t].closed
                          /\ tr[t].onclose \notin DOMAIN transports

\* C17: a DELETE whose session header is absent or names no entry of the
\* map, such as a second DELETE for a session already deleted, is answered
\* 400 {error: "Invalid or missing session ID"}; no transport is called, the
\* map is unchanged and the process goes on.
C17_DeleteUnknownRejected ==
  [][ ( /\ Arrived
        /\ pending.method = "DELETE"
        /\ OnRoute(pending)
        /\ securityFilter(pending).status = 0
        /\ pending.sid \notin DOMAIN transports )
      => ( /\ last' = InvalidSession
           /\ alive'
           /\ UNCHANGED <<transports, tr, boundTo, issued, inflight>> ) ]_vars

W17_SecondDelete ==
  /\ Handled /\ pending.method = "DELETE" /\ last = InvalidSession
  /\ pending.sid # 0
  /\ \E t \in DOMAIN tr : /\ tr[t].onclose = pending.sid
                          /\ ~tr[t].closed
                          /\ pending.sid \notin DOMAIN transports

\* C18: a handler that ends, by its return or by an exception of a call it
\* awaited, has answered through the transport or answers 500 with code
\* -32603 and id null, and the process goes on.
C18_ExceptionsCaught ==
  [][ /\ alive => alive'
      /\ \A s \in Slots :
           (inflight[s].pc # "idle" /\ inflight'[s] = Idle)
             => last' \in {ByTransport(inflight[s].t), InternalError} ]_vars

\* C19: the -32000 rejection carries the id of the request body when the
\* body has an id member, whatever its value, and null when it has none.
C19_IdEchoed ==
  (Handled /\ last.code = -32000)
    => last.id = (IF pending.body.kind = "object" /\ pending.body.id # "absent"
                  THEN pending.body.id ELSE "null")

\* C20: GET /health is answered "ok" with the number of entries of the
\* session map as activeSessions, whatever the credentials and the address
\* of the request, and nothing of the session state is touched.
C20_HealthOpenAndExact ==
  [][ (Arrived /\ pending.path = HealthPath /\ pending.method = "GET")
      => ( /\ last' = HealthOk(Cardinality(DOMAIN transports))
           /\ UNCHANGED <<transports, tr, boundTo, issued, inflight>> ) ]_vars

W20_HealthWithTwoSessions ==
  /\ Handled /\ last.by = "health"
  /\ last.status = 200 /\ last.activeSessions = 2
  /\ Cardinality(DOMAIN transports) = 2
  /\ securityFilter(pending).status # 0

\* C21: a request carrying the identifier S that a transport handed out in
\* its initialize response is passed to that transport and is not answered
\* -32000, as long as the session is neither closed nor deleted, also when
\* it arrives before the initialize handler has resumed.
C21_IssuedSessionForwarded ==
  [][ \A t \in DOMAIN tr :
        ( /\ Arrived
          /\ OnRoute(pending)
          /\ securityFilter(pending).status = 0
          \* the client of transport t holds the identifier of the request
          /\ pending.sid # 0 /\ tr[t].sessionId = pending.sid /\ ~tr[t].closed
          /\ \/ pending.sid \in DOMAIN transports /\ transports[pending.sid] = t
             \/ \E s \in Slots : inflight[s].pc = "initializing" /\ inflight[s].t = t )
        => ( /\ last'.code # -32000
             /\ \E s \in Slots :
                  /\ inflight[s] = Idle
                  /\ inflight'[s].pc \in {"forwarding", "deleting"}
                  /\ inflight'[s].t = t ) ]_vars

\* C22: a lookup that starts while the cache holds a snapshot whose window
\* of cacheTTL milliseconds, counted from the store of the snapshot, has not
\* elapsed issues no getRecords and returns that snapshot; a lookup that
\* starts with no snapshot, or at or after the expiry instant, issues one.
C22_OneFetchPerWindow ==
  [][ /\ (started' = started + 1)
         => IF allRecordsCache.present /\ clock < allRecordsCache.expires
            THEN /\ fetchLog' = fetchLog
                 /\ returned'.fetch = 0 /\ ~returned'.failed
                 /\ returned'.served = allRecordsCache.data
            ELSE /\ Len(fetchLog') = Len(fetchLog) + 1
                 /\ fetchLog'[Len(fetchLog')].state = "pending"
      /\ \A c \in Lookups :
           (calls[c].pc = "fetching" /\ calls'[c] = NoCall /\ ~returned'.failed)
             => /\ allRecordsCache'.present
                /\ allRecordsCache'.expires = clock + cacheTTL ]_vars

\* the second of two lookups is served from the cache in the last
\* millisecond of the window; one getRecords was issued in all
W22_SecondServedFromCache ==
  /\ started = 2 /\ Len(fetchLog) = 1
  /\ returned.op # "" /\ returned.fetch = 0
  /\ allRecordsCache.present /\ clock = allRecordsCache.expires - 1

\* C23: the cache is empty or holds the whole record list of one resolved
\* getRecords call together with the expiry computed when that list was
\* stored, and every lookup that returned records returned such a list.
C23_SnapshotWhole ==
  LET WholeSnapshot(data) ==
        /\ data.fetch \in 1..Len(fetchLog)
        /\ fetchLog[data.fetch].state = "resolved"
        /\ data = Snapshot(data.fetch)
  IN
  /\ allRecordsCache.present
       => /\ WholeSnapshot(allRecordsCache.data)
          /\ allRecordsCache.expires = fetchLog[allRecordsCache.data.fetch].at + cacheTTL
  /\ ~allRecordsCache.present => allRecordsCache = NoCache
  /\ (returned.op # "" /\ ~returned.failed) => WholeSnapshot(returned.served)

\* the cache was replaced by a second snapshot, at a later time than the
\* first, while another lookup awaits its own getRecords
W23_RefreshedWhileFetching ==
  /\ allRecordsCache.present /\ allRecordsCache.data.fetch >= 2
  /\ \E f \in 1..Len(fetchLog) :
       fetchLog[f].state = "resolved" /\ fetchLog[f].at < fetchLog[allRecordsCache.data.fetch].at
  /\ \E c \in Lookups : calls[c].pc = "fetching"

\* C24: a tool call during which the fetch of the documentation records
\* failed returns an error-flagged text result; in particular get_context,
\* with the documentation table configured, then returns an error-flagged
\* result and not the result "no context found".
C24_FailuresFlagged ==
  /\ (toolResult.tool # "" /\ "getRecords" \in toolResult.failed) => toolResult.isError
  /\ ( /\ toolResult.tool = "get_context"
       /\ contextStore
       /\ "getRecords" \in toolResult.failed )
     => (toolResult.isError /\ toolResult.text # "Kein Kontextwissen gefunden")

\* C25: every entry of the session map refers to a transport that has not
\* closed, whenever the close notification arrives.
C25_NoClosedSessionInMap ==
  \A k \in DOMAIN transports : ~tr[transports[k]].closed

\* C26: when the initialize handler ends in its catch block, because
\* server.connect or transport.handleRequest threw, the session map is as
\* the handler found it: the transport of the handler is under no key and
\* the entries of the other sessions are untouched.
C26_FailedInitializeLeavesMap ==
  [][ \A s \in Slots :
        ( /\ inflight[s].pc \in {"connecting", "initializing"}
          /\ inflight'[s] = Idle
          /\ last' = InternalError )
        => /\ transports' = transports
           /\ \A k \in DOMAIN transports' : transports'[k] # inflight[s].t ]_vars

\* transport.handleRequest threw after the transport had taken its
\* identifier: the handler answered 500, the transport is under no key and
\* the session registered before is still in the map
W26_ThrownAfterIdentifier ==
  /\ last = InternalError /\ pending = NoRequest
  /\ Cardinality(DOMAIN transports) = 1
  /\ \E t \in DOMAIN tr :
       /\ tr[t].sessionId # 0 /\ tr[t].onclose = 0
       /\ \A s \in Slots : inflight[s].t # t
       /\ \A k \in DOMAIN transports : transports[k] # t

\* C27: a DELETE that arrives while another DELETE for the same session
\* still awaits the transport is answered 400 "Invalid or missing session
\* ID" and is not passed to the transport.
C27_TeardownForwardedOnce ==
  [][ ( /\ Arrived
        /\ pending.method = "DELETE"
        /\ OnRoute(pending)
        /\ securityFilter(pending).status = 0
        /\ \E s \in Slots : inflight[s].pc = "deleting" /\ inflight[s].sid = pending.sid )
      => (last' = InvalidSession /\ inflight' = inflight) ]_vars

\* C28: the cache never holds the records of a getRecords call that was
\* issued before the last clearCache(), so a lookup that starts after the
\* clear is served only from a fetch issued after it.
C28_ClearOutlivesRefresh ==
  allRecordsCache.present => allRecordsCache.data.fetch > clearedAfter

\* C29: at most one getRecords call is in flight at any time, lookups that
\* start meanwhile issuing none; and a getRecords call that fails leaves the
\* cache as it was.
C29_SingleFlight ==
  [][ /\ Cardinality({c \in Lookups : calls'[c].pc = "fetching"}) <= 1
      /\ \A c \in Lookups :
           (calls[c].pc = "fetching" /\ calls'[c] = NoCall /\ returned'.failed)
             => allRecordsCache' = allRecordsCache ]_vars

\* C30: getModuleContext(name) returns the first record whose Modul equals
\* name up to case, else the first record whose Modul contains name or is
\* contained in name up to case, and null exactly when there is neither; a
\* missing Modul counts as the empty string.
C30_FirstRelatedRecord ==
  (returned.op = "getModuleContext" /\ ~returned.failed)
    => LET EqualIgnoringCase(v, w) ==
             /\ Len(v) = Len(w)
             /\ \A i \in 1..Len(v) : v[i] = w[i] \/ {v[i], w[i]} = {"a", "A"}
           ContainsIgnoringCase(v, w) ==
             \E i \in 1..(Len(v) + 1), j \in 0..Len(v) :
               EqualIgnoringCase(SubSeq(v, i, j), w)
           ModulText(fields) ==
             IF fields.Modul.present THEN fields.Modul.value ELSE <<>>
           FirstOf(indices) == CHOOSE i \in indices : \A j \in indices : i <= j
           records == returned.served.records
           context == returned.value.context
           equal == {i \in 1..Len(records) :
                       EqualIgnoringCase(ModulText(records[i]), returned.name)}
           related == {i \in 1..Len(records) :
                         \/ ContainsIgnoringCase(ModulText(records[i]), returned.name)
                         \/ ContainsIgnoringCase(returned.name, ModulText(records[i]))}
           IsRecord(i) ==
             /\ context.present
             /\ context.processDescription = records[i].Prozessbeschreibung
             /\ context.moduleName =
                  (IF ModulText(records[i]) = <<>> THEN returned.name
                   ELSE ModulText(records[i]))
       IN IF equal # {} THEN IsRecord(FirstOf(equal))
          ELSE IF related # {} THEN IsRecord(FirstOf(related))
          ELSE ~context.present

\* a name that no Modul resembles is answered with the second record, whose
\* Modul field is missing, the first record being unrelated
W30_MissingModulMatches ==
  /\ returned.op = "getModuleContext" /\ ~returned.failed
  /\ returned.name = <<"x">>
  /\ Len(returned.served.records) = 2
  /\ returned.served.records[1].Modul = Field(<<"a">>)
  /\ returned.served.records[2].Modul = NoField
  /\ returned.value.context.present
  /\ returned.value.context.processDescription = 2

====
